---- MODULE Spec2Model ----
(***************************************************************************)
(* Model of raoptimus/form.go: Load(data, v) decodes a map[string][]string *)
(* into the struct v points to (src/form.go, src/decode_state.go).         *)
(*                                                                         *)
(* Strings the decoder parses or copies (raw form values, string fields,   *)
(* the Value of a LoadTypeError) are sequences of one-character strings,   *)
(* so that strconv's parsers are computed character by character.  Map     *)
(* keys, field names and tags are only compared, and stay TLA+ strings.    *)
(* Integers are decimal magnitudes (sequences of digits, most significant  *)
(* first, no leading zero, <<>> for 0) with a sign, so that the 64-bit     *)
(* limits of strconv are the real ones.                                    *)
(***************************************************************************)
EXTENDS Integers, Sequences, FiniteSets, TLC

\* ---------------------------------------------------------------- bounds
\* Longest record of the multi-field inputs.
MaxFields == 3
\* Longest value sequence under one key.
MaxVals == 2

\* ------------------------------------------------------------ raw strings
Str_empty == <<>>
Str_1 == <<"1">>
Str_0 == <<"0">>
Str_true == <<"t", "r", "u", "e">>
Str_false == <<"f", "a", "l", "s", "e">>
Str_yes == <<"y", "e", "s">>
Str_null == <<"n", "u", "l", "l">>
Str_x == <<"x">>
Str_neg5 == <<"-", "5">>
Str_42 == <<"4", "2">>
Str_300 == <<"3", "0", "0">>
Str_1p5 == <<"1", ".", "5">>
\* 2^64, one more than the largest uint64
Str_2pow64 == <<"1", "8", "4", "4", "6", "7", "4", "4", "0", "7", "3", "7", "0", "9", "5", "5", "1", "6", "1", "6">>
\* -2^64, below the smallest int64
Str_neg2pow64 == <<"-">> \o Str_2pow64
Str_success == <<"s", "u", "c", "c", "e", "s", "s">>

\* The raw values a key's first position is drawn from.
RawValues ==
  {Str_empty, Str_1, Str_0, Str_true, Str_false, Str_yes, Str_null, Str_x,
   Str_neg5, Str_42, Str_300, Str_1p5, Str_2pow64, Str_neg2pow64}

\* The raw values the later positions of a sequence are drawn from.
TailValues == {Str_1, Str_x, Str_null}

\* "number " and "array ", the prefixes of LoadTypeError.Value
NumberPrefix == <<"n", "u", "m", "b", "e", "r", " ">>
ArrayPrefix == <<"a", "r", "r", "a", "y", " ">>

\* ---------------------------------------------------------------- strconv
DigitChars == {"0", "1", "2", "3", "4", "5", "6", "7", "8", "9"}

DigitVal(c) ==
  CASE c = "0" -> 0 [] c = "1" -> 1 [] c = "2" -> 2 [] c = "3" -> 3
    [] c = "4" -> 4 [] c = "5" -> 5 [] c = "6" -> 6 [] c = "7" -> 7
    [] c = "8" -> 8 [] c = "9" -> 9

\* math.MaxUint64, math.MaxInt64 and -math.MinInt64 as decimal magnitudes
MaxUint64Mag == <<1, 8, 4, 4, 6, 7, 4, 4, 0, 7, 3, 7, 0, 9, 5, 5, 1, 6, 1, 5>>
MaxInt64Mag == <<9, 2, 2, 3, 3, 7, 2, 0, 3, 6, 8, 5, 4, 7, 7, 5, 8, 0, 7>>
MinInt64Mag == <<9, 2, 2, 3, 3, 7, 2, 0, 3, 6, 8, 5, 4, 7, 7, 5, 8, 0, 8>>

\* n*10 + d on magnitudes
AppendDigit(n, d) == IF n = <<>> /\ d = 0 THEN <<>> ELSE Append(n, d)

\* a > b on magnitudes
GreaterMag(a, b) ==
  \/ Len(a) > Len(b)
  \/ /\ Len(a) = Len(b)
     /\ \E j \in 1..Len(a) : a[j] > b[j] /\ \A m \in 1..(j - 1) : a[m] = b[m]

\* The digit loop of strconv.ParseUint(s, 10, 64): a character that is not a
\* decimal digit is a syntax error (value 0); the first digit that takes the
\* value past MaxUint64 is a range error (value MaxUint64), whatever follows.
RECURSIVE ScanUint(_, _, _)
ScanUint(s, k, n) ==
  IF k > Len(s) THEN [n |-> n, err |-> "nil"]
  ELSE IF s[k] \notin DigitChars THEN [n |-> <<>>, err |-> "syntax"]
  ELSE LET n1 == AppendDigit(n, DigitVal(s[k]))
       IN IF GreaterMag(n1, MaxUint64Mag)
          THEN [n |-> MaxUint64Mag, err |-> "range"]
          ELSE ScanUint(s, k + 1, n1)

\* strconv.ParseUint(s, 10, 64)
ParseUint(s) ==
  IF s = <<>> THEN [n |-> <<>>, err |-> "syntax"] ELSE ScanUint(s, 1, <<>>)

\* An integer value: sign and magnitude (0 is never negative).
IntVal(neg, mag) == [neg |-> neg /\ mag # <<>>, mag |-> mag]

\* strconv.ParseInt(s, 10, 64): an optional sign, then ParseUint; a syntax
\* error gives 0, a value outside int64 gives the nearest limit and a range
\* error.
ParseInt(s) ==
  IF s = <<>> THEN [n |-> IntVal(FALSE, <<>>), err |-> "syntax"]
  ELSE LET neg == s[1] = "-"
           body == IF s[1] \in {"+", "-"} THEN Tail(s) ELSE s
           un == ParseUint(body)
       IN IF un.err = "syntax" THEN [n |-> IntVal(FALSE, <<>>), err |-> "syntax"]
          ELSE IF ~neg /\ GreaterMag(un.n, MaxInt64Mag)
          THEN [n |-> IntVal(FALSE, MaxInt64Mag), err |-> "range"]
          ELSE IF neg /\ GreaterMag(un.n, MinInt64Mag)
          THEN [n |-> IntVal(TRUE, MinInt64Mag), err |-> "range"]
          ELSE [n |-> IntVal(neg, un.n), err |-> "nil"]

\* The leading zeros of a digit sequence removed.
RECURSIVE StripLeadingZeros(_)
StripLeadingZeros(ds) ==
  IF ds # <<>> /\ ds[1] = 0 THEN StripLeadingZeros(Tail(ds)) ELSE ds

\* The trailing zeros of a digit sequence removed.
RECURSIVE StripTrailingZeros(_)
StripTrailingZeros(ds) ==
  IF ds # <<>> /\ ds[Len(ds)] = 0
  THEN StripTrailingZeros(SubSeq(ds, 1, Len(ds) - 1)) ELSE ds

\* strconv.ParseFloat(s, 64) on the characters of RawValues: an optional
\* sign, decimal digits and at most one point, with at least one digit.  The
\* value is named by its decimal: integer part ip and fraction fp.  (The
\* exponent, hexadecimal, "inf" and "nan" forms need characters that no
\* modelled raw value arranges that way; none of these inputs overflows a
\* float64, so OverflowFloat is false.)
ParseFloat(s) ==
  LET signed == s # <<>> /\ s[1] \in {"+", "-"}
      body == IF signed THEN Tail(s) ELSE s
      dots == {k \in 1..Len(body) : body[k] = "."}
      ok == /\ \A k \in 1..Len(body) : body[k] \in DigitChars \cup {"."}
            /\ Cardinality(dots) <= 1
            /\ \E k \in 1..Len(body) : body[k] \in DigitChars
      dot == IF dots = {} THEN Len(body) + 1 ELSE CHOOSE k \in dots : TRUE
      digitsOf(q) == [k \in 1..Len(q) |-> DigitVal(q[k])]
  IN IF ~ok THEN [n |-> [neg |-> FALSE, ip |-> <<>>, fp |-> <<>>], err |-> "syntax"]
     ELSE [n |-> [neg |-> signed /\ s[1] = "-",
                  ip |-> StripLeadingZeros(digitsOf(SubSeq(body, 1, dot - 1))),
                  fp |-> StripTrailingZeros(digitsOf(SubSeq(body, dot + 1, Len(body))))],
           err |-> "nil"]

\* ---------------------------------------------------------------- reflect
\* The magnitude of a small natural number.
RECURSIVE NatMag(_)
NatMag(m) == IF m = 0 THEN <<>> ELSE Append(NatMag(m \div 10), m % 10)

\* A magnitude modulo 256: the low eight bits.
RECURSIVE Low8(_, _)
Low8(mag, acc) ==
  IF mag = <<>> THEN acc ELSE Low8(Tail(mag), (acc * 10 + mag[1]) % 256)

\* The width in bits of an integer kind.
Bits(kind) == IF kind \in {"int8", "uint8"} THEN 8 ELSE 64

\* reflect.Value.SetInt: the int64 is stored truncated to the field's width
\* (two's complement).
SetInt(kind, x) ==
  IF Bits(kind) = 64 THEN x
  ELSE LET low == Low8(x.mag, 0)
           u == IF x.neg THEN (256 - low) % 256 ELSE low
       IN IF u >= 128 THEN IntVal(TRUE, NatMag(256 - u)) ELSE IntVal(FALSE, NatMag(u))

\* reflect.Value.SetUint: the uint64 (a magnitude) is stored truncated to the
\* field's width.
SetUint(kind, n) ==
  IF Bits(kind) = 64 THEN IntVal(FALSE, n) ELSE IntVal(FALSE, NatMag(Low8(n, 0)))

IntKinds == {"int64", "int8"}
UintKinds == {"uint64", "uint8"}
FloatKinds == {"float64"}
\* The kinds the scalar switch has a case for
SwitchKinds == IntKinds \cup UintKinds \cup FloatKinds \cup {"bool", "string", "interface"}
\* The kinds of a field; "map" stands for the kinds the switch has no case for
ScalarKinds == SwitchKinds \cup {"map"}
ElemKinds == {"int64", "uint64", "float64", "string", "bool", "interface"}

\* The zero value of a kind
Zero(kind) ==
  CASE kind \in IntKinds \cup UintKinds -> IntVal(FALSE, <<>>)
    [] kind \in FloatKinds -> [neg |-> FALSE, ip |-> <<>>, fp |-> <<>>]
    [] kind = "bool" -> FALSE
    [] kind = "string" -> Str_empty
    [] kind = "slice" -> <<>>
    [] OTHER -> "nil"

\* A value a caller stored in a field of the kind before the call
Preset(kind) ==
  CASE kind \in IntKinds \cup UintKinds -> IntVal(FALSE, <<7>>)
    [] kind \in FloatKinds -> [neg |-> FALSE, ip |-> <<7>>, fp |-> <<>>]
    [] kind = "bool" -> TRUE
    [] kind = "string" -> Str_success
    [] kind = "interface" -> Str_success
    [] OTHER -> "nil"

\* ----------------------------------------------------------------- errors
NoError == [kind |-> "nil"]
errInvalidValue == [kind |-> "errInvalidValue"]
\* &InvalidLoadError{reflect.TypeOf(v)}
InvalidLoadError(type) == [kind |-> "InvalidLoadError", Type |-> type]
\* &LoadTypeError{Value: prefix + raw, Type: v.Type()}: v is the record, so
\* Type is the struct's type whatever the field's is
LoadTypeError(prefix, raw) ==
  [kind |-> "LoadTypeError", Value |-> prefix \o raw, Type |-> "struct"]

\* ------------------------------------------------------------------ state
VARIABLES
  dst,              \* what Load was handed as v
  fields,           \* the record type: its field declarations, in order
  val0,             \* the fields' values before the call
  val,              \* the fields' values
  data,             \* d.data
  savedError,       \* d.savedError
  fieldAliasNames,  \* the lookup keys value() builds, one per field
  i,                \* the field the walk is at (0: the walk has not begun)
  pc,               \* "parse", "value", "walk", "done" (returned), "panic"
  ret               \* the error Load returned

vars == <<dst, fields, val0, val, data, savedError, fieldAliasNames, i, pc, ret>>

\* ------------------------------------------------------------- operations
\* A field declaration: its name, its `request:"..."` and `json:"..."` tags
\* ("" when the tag is missing), its kind, its element kind when it is a
\* slice, and whether it is exported.
Decl(name, request, json, kind, elem, exported) ==
  [name |-> name, request |-> request, json |-> json, kind |-> kind,
   elem |-> elem, exported |-> exported]

\* reflect.TypeOf(v) as InvalidLoadError records it
TypeOf(d) ==
  CASE d = "nil" -> "nil"
    [] d = "nonptr" -> "struct"
    [] d \in {"nilptr", "ptr_struct"} -> "*struct"
    [] d = "ptr_other" -> "*int"

\* A parse that forgets rv.IsNil()
InvalidLoad_NoNilCheck(d) == d \in {"nil", "nonptr"}

\* parse: rv.Kind() != reflect.Pointer || rv.IsNil()
InvalidLoad(d) == d \in {"nil", "nonptr"} \/ d = "nilptr"

\* addErrorContext returns its argument
addErrorContext(err) == err

\* A saveError that keeps the last error
saveError_LastWins(saved, err) == addErrorContext(err)

\* saveError: the slot is written only while it is nil
saveError(saved, err) == IF saved = NoError THEN addErrorContext(err) ELSE saved

\* A key resolution that ignores the tag
AliasName_NameOnly(f) == f.name

\* A key resolution that falls back on the json tag before the name
AliasName_JsonTag(f) ==
  IF f.request # "" THEN f.request ELSE IF f.json # "" THEN f.json ELSE f.name

\* value: the lookup key of a field is its "request" tag unless that is empty
AliasName(f) == IF f.request # "" THEN f.request ELSE f.name

\* fieldValue.CanSet(): the record is addressable, so a field can be set
\* exactly when it is exported
CanSet(f) == f.exported

\* A walk without the "null" check
IsNull_Never(s) == FALSE

\* dataV[0] == "null"
IsNull(s) == s = Str_null

\* The outcome of (part of) one iteration of the field loop: the field's
\* value, the error slot, and whether the iteration panicked.
Outcome(v, e, p) == [val |-> v, err |-> e, panic |-> p]

\* A signed case that skips the store when the parse failed
coerceInt_KeepOnError(kind, v, s) ==
  IF ParseInt(s).err # "nil" THEN v ELSE SetInt(kind, ParseInt(s).n)

\* case Int...: intV, _ := strconv.ParseInt(dataV[0], 10, 64);
\* fieldValue.SetInt(intV).  The error is dropped and the result stored.
coerceInt(kind, v, s) == SetInt(kind, ParseInt(s).n)

\* case Uint...: the error is saved, and the result stored all the same
coerceUint(kind, v, s, e, prefix) ==
  LET r == ParseUint(s)
  IN Outcome(SetUint(kind, r.n),
             IF r.err # "nil" THEN saveError(e, LoadTypeError(prefix, s)) ELSE e,
             FALSE)

\* case Float...: on an error it is saved and the value is not stored
coerceFloat(v, s, e, prefix) ==
  LET r == ParseFloat(s)
  IN IF r.err # "nil"
     THEN Outcome(v, saveError(e, LoadTypeError(prefix, s)), FALSE)
     ELSE Outcome(r.n, e, FALSE)

\* The switch on fieldValue.Kind() for the first value s.  The Bool case
\* calls SetBool on v, the record (a struct Value), and SetString on a field
\* of Interface kind is a call on a non-string Value: reflect panics in both.
\* A kind without a case writes errInvalidValue into the slot directly.
scalarSwitch(kind, v, s, e) ==
  CASE kind \in IntKinds -> Outcome(coerceInt(kind, v, s), e, FALSE)
    [] kind \in UintKinds -> coerceUint(kind, v, s, e, NumberPrefix)
    [] kind = "bool" -> Outcome(v, e, TRUE)
    [] kind \in FloatKinds -> coerceFloat(v, s, e, NumberPrefix)
    [] kind = "string" -> Outcome(s, e, FALSE)
    [] kind = "interface" -> Outcome(v, e, TRUE)
    [] OTHER -> Outcome(v, errInvalidValue, FALSE)

\* The element loop of a slice field, from element k on: dataV[k] is read
\* for every element of the field, and panics (index out of range) past the
\* end of dataV, after the elements before it were written.  A bool element
\* has no case; SetString on an interface element panics.
RECURSIVE sliceLoop(_, _, _, _, _)
sliceLoop(elem, vs, dataV, k, e) ==
  IF k > Len(vs) THEN Outcome(vs, e, FALSE)
  ELSE IF k > Len(dataV) THEN Outcome(vs, e, TRUE)
  ELSE LET o == CASE elem \in IntKinds -> Outcome(SetInt(elem, ParseInt(dataV[k]).n), e, FALSE)
                  [] elem \in UintKinds -> coerceUint(elem, vs[k], dataV[k], e, ArrayPrefix)
                  [] elem \in FloatKinds -> coerceFloat(vs[k], dataV[k], e, ArrayPrefix)
                  [] elem = "string" -> Outcome(dataV[k], e, FALSE)
                  [] elem = "interface" -> Outcome(vs[k], e, TRUE)
                  [] OTHER -> Outcome(vs[k], e, FALSE)
       IN IF o.panic THEN Outcome(vs, e, TRUE)
          ELSE sliceLoop(elem, [vs EXCEPT ![k] = o.val], dataV, k + 1, o.err)

\* if fieldValue.Kind() == reflect.Slice { ... }: an empty field is resized
\* by reflect.MakeSlice(v.Type(), ...), where v is the record: MakeSlice of
\* a non-slice type panics.
sliceBranch(f, v, dataV, e) ==
  IF f.kind # "slice" THEN Outcome(v, e, FALSE)
  ELSE IF Len(v) = 0 THEN Outcome(v, e, TRUE)
  ELSE sliceLoop(f.elem, v, dataV, 1, e)

\* One iteration of `for i, fieldAliasName := range fieldAliasNames`.
fieldIter(f, v, key, e) ==
  IF key \notin DOMAIN data THEN Outcome(v, e, FALSE)
  ELSE IF ~CanSet(f) THEN Outcome(v, e, FALSE)
  ELSE LET dataV == data[key]
           o == sliceBranch(f, v, dataV, e)
       IN IF o.panic THEN o
          ELSE IF Len(dataV) < 1 THEN o
          ELSE IF IsNull(dataV[1]) THEN o
          ELSE scalarSwitch(f.kind, o.val, dataV[1], o.err)

\* A loop that also ends at the first recorded error
LoopDone_StopOnError(k, e) == k > Len(fields) \/ e # NoError

\* The range loop is over: every field was visited
LoopDone(k, e) == k > Len(fields)

\* ----------------------------------------------------------------- inputs
\* The sequences of length m over TailValues
RECURSIVE TailSeqs(_)
TailSeqs(m) ==
  IF m = 0 THEN {<<>>}
  ELSE {Append(t, r) : t \in TailSeqs(m - 1), r \in TailValues}

\* The value sequences a key maps to: empty, or a first value of RawValues
\* followed by up to MaxVals - 1 values of TailValues
ValueSeqs ==
  {<<>>} \cup
  {<<r>> \o t : r \in RawValues, t \in UNION {TailSeqs(m) : m \in 0..(MaxVals - 1)}}

\* The mappings over subsets of the keys, with values from seqs
Mappings(keys, seqs) == UNION {[S -> seqs] : S \in SUBSET keys}

\* The values a field of declaration f can hold before the call: the zero
\* value or a stored one; a slice is nil or holds one or two elements
InitialValues(f) ==
  IF f.kind = "slice"
  THEN {<<>>, <<Preset(f.elem)>>, <<Preset(f.elem), Zero(f.elem)>>}
  ELSE {Zero(f.kind), Preset(f.kind)}

\* The names of the fields of the multi-field records, by position
FieldNames == <<"A", "B", "C", "D", "E", "F", "G", "H">>

\* The kinds of the fields of the multi-field records
WalkKinds == {"uint64", "float64", "map", "string", "int64"}

\* The value that does not parse, by position: the failures of two fields
\* are told apart by the raw value their errors embed
WalkBad(k) == <<Str_x, Str_yes, Str_true, Str_false>>[((k - 1) % 4) + 1]

\* What every call starts from: d.init has stored the mapping and cleared
\* the error slot, and parse is about to run
Start(d, fs, vs, m) ==
  /\ dst = d
  /\ fields = fs
  /\ val0 = vs
  /\ val = vs
  /\ data = m
  /\ savedError = NoError
  /\ fieldAliasNames = <<>>
  /\ i = 0
  /\ pc = "parse"
  /\ ret = NoError

\* Calls with a destination that is not a pointer to a record
InitEntry ==
  \E d \in {"nil", "nonptr", "nilptr", "ptr_other"} :
  \E kind \in {"string", "uint64", "bool"} :
  \E m \in Mappings({"F"}, {<<Str_1>>}) :
    LET f == Decl("F", "", "", kind, "", TRUE)
    IN \E v \in InitialValues(f) :
         IF d = "ptr_other" THEN Start(d, <<>>, <<>>, m) ELSE Start(d, <<f>>, <<v>>, m)

\* Calls on the record of the repository's test, struct { Status string;
\* Type string }, under every choice of the two tags: each key that a name
\* or a tag can spell maps to a value of its own
InitAlias ==
  \E r1 \in {"", "type", "Status"}, r2 \in {"", "type", "Status"} :
  \E j1 \in {"", "status"}, j2 \in {"", "status"} :
  \E v1 \in {Str_empty, Str_success}, v2 \in {Str_empty, Str_success} :
  \E S \in SUBSET {"Status", "Type", "status", "type"} :
    Start("ptr_struct",
          <<Decl("Status", r1, j1, "string", "", TRUE),
            Decl("Type", r2, j2, "string", "", TRUE)>>,
          <<v1, v2>>,
          [k \in S |-> CASE k = "Status" -> <<Str_yes>>
                         [] k = "Type" -> <<Str_42>>
                         [] k = "status" -> <<Str_x>>
                         [] k = "type" -> <<Str_1>>])

\* Calls on a record of one field, F or the unexported f, of every kind, zero
\* or stored, with its name absent or mapped to every value sequence
InitCoerce ==
  \E kind \in ScalarKinds \cup {"slice"} :
  \E elem \in IF kind = "slice" THEN ElemKinds ELSE {""} :
  \E exported \in BOOLEAN :
    LET f == Decl(IF exported THEN "F" ELSE "f", "", "", kind, elem, exported)
    IN \E m \in Mappings({f.name}, ValueSeqs) :
       \E v \in InitialValues(f) : Start("ptr_struct", <<f>>, <<v>>, m)

\* Calls on records of up to MaxFields fields of the kinds that record an
\* error, keep silent or have no case, each field absent or mapped to a value
\* that parses or to one that does not
InitWalk ==
  \E n \in 1..MaxFields :
  \E kinds \in [1..n -> WalkKinds] :
  \E S \in SUBSET (1..n), G \in SUBSET (1..n) :
    /\ G \subseteq S
    /\ Start("ptr_struct",
             [k \in 1..n |-> Decl(FieldNames[k], "", "", kinds[k], "", TRUE)],
             [k \in 1..n |-> Zero(kinds[k])],
             [key \in {FieldNames[k] : k \in S} |->
                LET k == CHOOSE q \in S : FieldNames[q] = key
                IN IF k \in G THEN <<Str_1>> ELSE <<WalkBad(k)>>])

Init == InitEntry \/ InitAlias \/ InitCoerce \/ InitWalk

\* ---------------------------------------------------------------- actions
\* parse, up to the call of value
Parse ==
  /\ pc = "parse"
  /\ IF InvalidLoad(dst)
     THEN pc' = "done" /\ ret' = InvalidLoadError(TypeOf(dst))
     ELSE pc' = "value" /\ ret' = ret
  /\ UNCHANGED <<dst, fields, val0, val, data, savedError, fieldAliasNames, i>>

\* value, up to the field loop: rv.Elem() of a nil pointer is the zero Value,
\* whose Type() panics; a target that is not a struct is errInvalidValue,
\* which parse returns; otherwise the lookup keys are built.
Value ==
  /\ pc = "value"
  /\ IF dst = "nilptr"
     THEN pc' = "panic" /\ UNCHANGED <<ret, fieldAliasNames, i>>
     ELSE IF dst # "ptr_struct"
     THEN pc' = "done" /\ ret' = addErrorContext(errInvalidValue)
          /\ UNCHANGED <<fieldAliasNames, i>>
     ELSE /\ pc' = "walk"
          /\ fieldAliasNames' = [k \in 1..Len(fields) |-> AliasName(fields[k])]
          /\ i' = 1
          /\ ret' = ret
  /\ UNCHANGED <<dst, fields, val0, val, data, savedError>>

\* One iteration of the field loop
Field ==
  /\ pc = "walk"
  /\ ~LoopDone(i, savedError)
  /\ LET o == fieldIter(fields[i], val[i], fieldAliasNames[i], savedError)
     IN /\ val' = [val EXCEPT ![i] = o.val]
        /\ savedError' = o.err
        /\ pc' = IF o.panic THEN "panic" ELSE "walk"
  /\ i' = i + 1
  /\ UNCHANGED <<dst, fields, val0, data, fieldAliasNames, ret>>

\* value returns nil and parse returns d.savedError
Return ==
  /\ pc = "walk"
  /\ LoopDone(i, savedError)
  /\ pc' = "done"
  /\ ret' = savedError
  /\ UNCHANGED <<dst, fields, val0, val, data, savedError, fieldAliasNames, i>>

Next == Parse \/ Value \/ Field \/ Return

Spec == Init /\ [][Next]_vars

\* ----------------------------------------------------------------- claims
\* What the claims speak of, stated on the record and the mapping alone.
Idx == 1..Len(fields)
ValidDst == dst = "ptr_struct"
\* The lookup key of field k: its alias when it has one, else its name
LookupKey(k) == IF fields[k].request = "" THEN fields[k].name ELSE fields[k].request
Present(k) == LookupKey(k) \in DOMAIN data
Looked(k) == data[LookupKey(k)]
HasFirst(k) == Present(k) /\ Len(Looked(k)) >= 1
First(k) == Looked(k)[1]

\* C1: when v is nil, not a pointer or a nil pointer, Load returns an
\* InvalidLoadError, no field is read or written, and no field walk takes
\* place: the call goes from parse straight to its return.
C1_StructuralFailure ==
  dst \in {"nil", "nonptr", "nilptr"} =>
    /\ pc \in {"parse", "done"}
    /\ val = val0
    /\ i = 0
    /\ fieldAliasNames = <<>>
    /\ savedError = NoError
    /\ pc = "done" => ret.kind = "InvalidLoadError"

\* A call on a nil pointer has returned, the mapping holding the key of a
\* field that a caller's record has stored a value in.
C1_Witness ==
  /\ dst = "nilptr"
  /\ pc = "done"
  /\ ret = InvalidLoadError("*struct")
  /\ \E k \in Idx : HasFirst(k) /\ val0[k] # Zero(fields[k].kind)

\* C2: a field is looked up under its "request" alias when that is not
\* empty and under its declared name otherwise, and under nothing else: when
\* Load has returned, a settable string field holds the first value of that
\* key when the key has one (other than "null"), and its former value if not,
\* whatever the keys spelled by its json tag or by its aliased name map to.
C2_AliasKey ==
  (ValidDst /\ pc = "done") =>
    \A k \in Idx :
      (fields[k].kind = "string" /\ fields[k].exported) =>
        val[k] = IF HasFirst(k) /\ First(k) # Str_null THEN First(k) ELSE val0[k]

\* The repository's test: struct { Status string `json:"status"`; Type string
\* `request:"type"` } holding Status = "success", loaded from {"type": ["1"]},
\* ends with Type = "1", Status = "success" and no error.
C2_Witness ==
  /\ pc = "done"
  /\ Len(fields) = 2
  /\ fields[1] = Decl("Status", "", "status", "string", "", TRUE)
  /\ fields[2] = Decl("Type", "type", "", "string", "", TRUE)
  /\ DOMAIN data = {"type"}
  /\ data["type"] = <<Str_1>>
  /\ val0 = <<Str_success, Str_empty>>
  /\ val = <<Str_success, Str_1>>
  /\ ret = NoError

\* C3: a field whose lookup key is absent from the mapping holds, at every
\* point of the call and after it, the value it held before the call.
C3_AbsentKeyKeepsField ==
  \A k \in Idx : ~Present(k) => val[k] = val0[k]

\* Load has returned; a field holding a stored value had no key and kept it,
\* while another field of the record was written.
C3_Witness ==
  /\ pc = "done"
  /\ \E k \in Idx, j \in Idx :
       /\ j # k
       /\ fields[k].kind = "string"
       /\ fields[j].kind = "string"
       /\ ~Present(k)
       /\ val0[k] = Str_success
       /\ val[k] = Str_success
       /\ val[j] # val0[j]

\* C4: a settable boolean field whose key has a first value: Load completes
\* without error, and the field is true exactly when that value is "true" or
\* "1" (the value "null" apart, which is no value).
C4_BoolCoercion ==
  \A k \in Idx :
    (/\ ValidDst
     /\ fields[k].kind = "bool"
     /\ fields[k].exported
     /\ HasFirst(k)
     /\ First(k) # Str_null
     /\ i > k) =>
      /\ pc # "panic"
      /\ savedError = NoError
      /\ val[k] = (First(k) \in {Str_true, Str_1})

\* C5: a settable list field of element type int, of length 0 before the
\* call, whose key maps to n values: after Load it has length n and element
\* j is the integer parsed from value j.
C5_ListOfInt ==
  \A k \in Idx :
    (/\ ValidDst
     /\ fields[k].kind = "slice"
     /\ fields[k].elem \in IntKinds
     /\ fields[k].exported
     /\ Present(k)
     /\ Len(val0[k]) = 0
     /\ i > k) =>
      /\ pc # "panic"
      /\ Len(val[k]) = Len(Looked(k))
      /\ \A j \in 1..Len(Looked(k)) : val[k][j] = ParseInt(Looked(k)[j]).n

\* The field the walk is at is looked up as the single value "null"
NullOnly(k) == Present(k) /\ Looked(k) = <<Str_null>>

\* C6 as stated: the iteration over a field whose looked-up sequence is the
\* single value "null" leaves the field as it was and records no error,
\* whatever the field's type, lists included.
C6_NullLeavesField ==
  [][(pc = "walk" /\ i \in Idx /\ NullOnly(i)) =>
       (val' = val /\ savedError' = savedError)]_vars

\* C6 as amended: the iteration over a field that is not a list and whose
\* looked-up sequence is the single value "null" leaves every field as it
\* was, records no error and goes on to the next field.
C6_NullLeavesScalar ==
  [][(pc = "walk" /\ i \in Idx /\ NullOnly(i) /\ fields[i].kind # "slice") =>
       (val' = val /\ savedError' = savedError /\ pc' = "walk")]_vars

\* Load has returned without error from a record whose settable unsigned
\* field, holding a stored value, was looked up as "null", and kept it.
C6_Witness ==
  /\ pc = "done"
  /\ ret = NoError
  /\ \E k \in Idx :
       /\ fields[k].kind \in UintKinds
       /\ fields[k].exported
       /\ NullOnly(k)
       /\ val0[k] = Preset(fields[k].kind)
       /\ val[k] = val0[k]

\* The first value of the scalar unsigned field k is no base-10 unsigned
\* integer of 64 bits
UintFails(k) ==
  /\ fields[k].kind \in UintKinds
  /\ fields[k].exported
  /\ HasFirst(k)
  /\ First(k) # Str_null
  /\ ParseUint(First(k)).err # "nil"

\* C7: when the first value of a settable scalar unsigned field is no valid
\* unsigned integer, Load returns a LoadTypeError that embeds the raw value
\* (here: in a record of that one field, so that nothing was recorded before)
\* and the field holds the value it held before the call.
C7_UintFailureKeepsField ==
  (ValidDst /\ pc = "done") =>
    \A k \in Idx :
      UintFails(k) =>
        /\ val[k] = val0[k]
        /\ Len(fields) = 1 => ret = LoadTypeError(NumberPrefix, First(k))

\* Field k reaches the switch on its kind: it is settable and its key has a
\* first value other than "null"
ReachesSwitch(k) == fields[k].exported /\ HasFirst(k) /\ First(k) # Str_null

\* Field k reaches the branch of the kinds the switch does not know
Unrecognized(k) == ReachesSwitch(k) /\ fields[k].kind \notin SwitchKinds

\* The raw value s does not coerce to the kind: an unsigned or a float that
\* does not parse (a signed integer that does not parse is no failure)
RawFails(kind, s) ==
  \/ kind \in UintKinds /\ ParseUint(s).err # "nil"
  \/ kind \in FloatKinds /\ ParseFloat(s).err # "nil"

\* The elements of the list field k whose value fails to coerce
FailingElems(k) ==
  IF fields[k].kind = "slice" /\ fields[k].exported /\ Present(k)
  THEN {j \in 1..Len(val0[k]) : j <= Len(Looked(k)) /\ RawFails(fields[k].elem, Looked(k)[j])}
  ELSE {}

\* Field k has a coercion failure, in an element or in its first value
Fails(k) ==
  \/ FailingElems(k) # {}
  \/ ReachesSwitch(k) /\ RawFails(fields[k].kind, First(k))

\* The error of the first coercion failure of field k
FailureOf(k) ==
  IF FailingElems(k) # {}
  THEN LET j == CHOOSE q \in FailingElems(k) : \A r \in FailingElems(k) : q <= r
       IN [kind |-> "LoadTypeError", Value |-> ArrayPrefix \o Looked(k)[j], Type |-> "struct"]
  ELSE [kind |-> "LoadTypeError", Value |-> NumberPrefix \o First(k), Type |-> "struct"]

\* The error the field walk determines
ExpectedError ==
  IF \E k \in Idx : Unrecognized(k) THEN errInvalidValue
  ELSE IF \E k \in Idx : Fails(k)
  THEN FailureOf(CHOOSE k \in Idx : Fails(k) /\ \A j \in Idx : Fails(j) => k <= j)
  ELSE NoError

\* C8: the error Load returns for a record destination is errInvalidValue
\* when a processed field reached the unrecognized-type branch, otherwise the
\* LoadTypeError of the first coercion failure in declaration order,
\* otherwise nil; and the slot never goes from a LoadTypeError to another
\* LoadTypeError, nor from errInvalidValue to anything else.
C8_ErrorSlot ==
  /\ []((ValidDst /\ pc = "done") => ret = ExpectedError)
  /\ [][/\ savedError.kind = "LoadTypeError" =>
             (savedError' = savedError \/ savedError' = errInvalidValue)
        /\ savedError = errInvalidValue => savedError' = errInvalidValue]_vars

\* Load has returned errInvalidValue from a record whose first field failed
\* to coerce, whose second failed too, and whose third has a kind the switch
\* does not know.
C8_WitnessClobber ==
  /\ pc = "done"
  /\ ret = errInvalidValue
  /\ Len(fields) >= 3
  /\ Fails(1)
  /\ Fails(2)
  /\ FailureOf(1) # FailureOf(2)
  /\ Unrecognized(3)

\* Field k is coerced without failure: it reaches the switch as a string, or
\* as a number whose first value parses and fits the field
Coercible(k) ==
  /\ ReachesSwitch(k)
  /\ \/ fields[k].kind = "string"
     \/ fields[k].kind \in FloatKinds /\ ParseFloat(First(k)).err = "nil"
     \/ fields[k].kind = "uint64" /\ ParseUint(First(k)).err = "nil"
     \/ fields[k].kind = "int64" /\ ParseInt(First(k)).err = "nil"

\* The value field k is coerced to
CoercedValue(k) ==
  CASE fields[k].kind = "string" -> First(k)
    [] fields[k].kind \in FloatKinds -> ParseFloat(First(k)).n
    [] fields[k].kind = "uint64" -> [neg |-> FALSE, mag |-> ParseUint(First(k)).n]
    [] fields[k].kind = "int64" -> ParseInt(First(k)).n

\* C9: a recorded coercion failure neither stops the walk nor is rolled
\* back: when Load returns an error for a record destination, the walk has
\* passed every field, and every field that coerces without failure, before
\* or after the failing one, holds its coerced value.
C9_WalkGoesOn ==
  (ValidDst /\ pc = "done" /\ ret # NoError) =>
    /\ i = Len(fields) + 1
    /\ \A k \in Idx : Coercible(k) => val[k] = CoercedValue(k)

\* Load has returned the error of the second field of a record whose first
\* and third fields were coerced and written.
C9_Witness ==
  /\ pc = "done"
  /\ Len(fields) >= 3
  /\ Coercible(1)
  /\ Fails(2)
  /\ Coercible(3)
  /\ ret = FailureOf(2)
  /\ val[1] = CoercedValue(1)
  /\ val[3] = CoercedValue(3)
  /\ val[1] # val0[1]
  /\ val[3] # val0[3]

\* The first value of the scalar signed field k does not parse as a base-10
\* integer of 64 bits
IntFails(k) ==
  /\ fields[k].kind \in IntKinds
  /\ fields[k].exported
  /\ HasFirst(k)
  /\ First(k) # Str_null
  /\ ParseInt(First(k)).err # "nil"

IntFailureValue(k) ==
  LET s == First(k)
      syntax == \/ \E q \in 1..Len(s) : s[q] \notin DigitChars /\ ~(q = 1 /\ s[q] \in {"+", "-"})
                \/ \A q \in 1..Len(s) : s[q] \notin DigitChars
      neg == s[1] = "-"
  IN IF syntax THEN [neg |-> FALSE, mag |-> <<>>]
     ELSE IF fields[k].kind = "int64"
     THEN (IF neg THEN [neg |-> TRUE, mag |-> MinInt64Mag] ELSE [neg |-> FALSE, mag |-> MaxInt64Mag])
     ELSE (IF neg THEN [neg |-> FALSE, mag |-> <<>>] ELSE [neg |-> TRUE, mag |-> <<1>>])

====
